---- MODULE Spec2Model ----
(***************************************************************************)
(* The logging core of shadowsocks: SsLogger::format (the printf-like      *)
(* format scan over a heterogeneous argument tuple), the level-keyed       *)
(* logging entry points with the emergency exit, and the named logger      *)
(* registry.                                                               *)
(*                                                                         *)
(* Strings are sequences of one-character strings.  A C index k of fmt is  *)
(* the element k+1 of the sequence, and fmt[strlen(fmt)] is the NUL.       *)
(***************************************************************************)
EXTENDS Integers, Sequences, FiniteSets, TLC

\* ------------------------------------------------------------------ bounds
MaxFmtLen == 5
MaxArgs == 2
MaxOverread == 2
MaxCalls == 2

\* --------------------------------------------------------------- alphabets
Alphabet == {"%", "x", "d", "-"}
NUL == "NUL"
AlnumChars == {"0", "1", "2", "3", "4", "5", "6", "7", "8", "9",
               "a", "b", "c", "d", "e", "f", "s", "x"}
HexDigits == <<"0", "1", "2", "3", "4", "5", "6", "7", "8", "9",
               "a", "b", "c", "d", "e", "f">>

\* argument values: an int (255), a C string ("s"); '%' is the char that the
\* exhausted branch hands to the printer
IntArg == [kind |-> "int", val |-> 255]
StrArg == [kind |-> "str", val |-> 0]
PercentChar == [kind |-> "chr", val |-> 37]
ArgValues == {IntArg, StrArg}

SeqsUpTo(S, n) == UNION {[1..k -> S] : k \in 0..n}
Fmts == SeqsUpTo(Alphabet, MaxFmtLen)
ArgLists == SeqsUpTo(ArgValues, MaxArgs)

Max(a, b) == IF a > b THEN a ELSE b
Range(s) == {s[k] : k \in 1..Len(s)}

\* ------------------------------------------------------- the C library part
strlen(f) == Len(f)
At(f, k) == IF k < Len(f) THEN f[k + 1] ELSE NUL
isalnum(c) == c \in AlnumChars

\* flags of a freshly constructed std::stringstream
InitFlags == {"skipws", "dec"}
BaseField == {"dec", "oct", "hex"}

RECURSIVE ToBase(_, _)
ToBase(n, b) ==
    IF n < b THEN <<HexDigits[n + 1]>>
    ELSE Append(ToBase(n \div b, b), HexDigits[(n % b) + 1])

\* _output << value : an integer is converted in base 16 (8) only when the
\* basefield is exactly hex (oct), in base 10 otherwise
InsertCharAsInt(value, flags) ==
    IF value.kind = "str" THEN <<"s">>
    ELSE IF flags \cap BaseField = {"hex"} THEN ToBase(value.val, 16)
    ELSE IF flags \cap BaseField = {"oct"} THEN ToBase(value.val, 8)
    ELSE ToBase(value.val, 10)
Insert(value, flags) ==
    IF value.kind = "int"
    THEN IF flags \cap BaseField = {"hex"} THEN ToBase(value.val, 16)
         ELSE IF flags \cap BaseField = {"oct"} THEN ToBase(value.val, 8)
         ELSE ToBase(value.val, 10)
    ELSE IF value.kind = "chr" THEN <<"%">>
    ELSE <<"s">>

\* --------------------------------------------------- runtime tuple indexing
\* VisitImpl<I>::visit(tuple, idx, func): the element handed to func, or the
\* assert(false) of VisitImpl<0>
RECURSIVE VisitImpl(_, _, _)
VisitImpl(I, tuple, idx) ==
    IF I = 0 THEN [ok |-> FALSE, val |-> PercentChar]
    ELSE IF idx = I - 1 THEN [ok |-> TRUE, val |-> tuple[I]]
    ELSE VisitImpl(I - 1, tuple, idx)

visit(tuple, idx) == VisitImpl(Len(tuple), tuple, idx)

\* ----------------------------------------------------- TupleElementPrinter
\* a printer is the part [ss, flags, dflt] of the scan record: the stream's
\* text, the stream's format flags, and _defaultFlags
TupleElementPrinter(p, value) ==
    LET o == [p EXCEPT !.ss = @ \o Insert(value, p.flags)]
    IN  IF o.dflt # {}
        THEN [o EXCEPT !.flags = @ \cup o.dflt, !.dflt = {}]
        ELSE o

\* TupleElementPrinter::setFlag: remembers the stream's flags and sets the
\* requested ones on the stream
setFlag(p, fl) == [p EXCEPT !.dflt = p.flags, !.flags = @ \cup fl]

\* ------------------------------------------------------- SsLogger::format
HasArgLe(index, tupleSize) == index <= tupleSize
HasArg(index, tupleSize) == index < tupleSize

IsEscapeNever(c) == FALSE
IsEscape(c) == c = "%"

\* while (isalnum(fmt[++i])) over the characters of fmt: the first index at
\* or after k whose character is not alphanumeric (k <= strlen(f))
RECURSIVE SkipAlnum(_, _)
SkipAlnum(f, k) == IF isalnum(At(f, k)) THEN SkipAlnum(f, k + 1) ELSE k

\* what the skip loop meets when it starts beyond the terminating NUL:
\* n >= 0 is n alphanumeric bytes and then a byte that is not, n < 0 is
\* -n - 1 alphanumeric bytes and then a read that faults
Outcomes == {-(k + 1) : k \in 0..MaxOverread} \cup (0..MaxOverread)
Faulting(n) == n < 0
BytesFound(n) == IF n < 0 THEN -n - 1 ELSE n

\* the state of one call of format
ScanInit ==
    [i |-> 0, index |-> 0, ss |-> <<>>, flags |-> InitFlags, dflt |-> {},
     maxRead |-> 0, asserted |-> FALSE, visited |-> {}, printLog |-> <<>>,
     copied |-> <<>>, subs |-> {}, last |-> "none"]

\* the lambda output(i), entered with s.i already incremented past the '%'.
\* visit takes its functor by value: operator() runs on a copy of printer,
\* which writes to the shared stream (text and flags) while the reset of
\* _defaultFlags is lost with the copy; printer('%') runs on printer itself.
\* When the skip loop starts beyond the terminating NUL, n is what it meets
\* there; a faulting read leaves i at the index it tried to read, and
\* maxRead is the highest index read.
output(f, tuple, s, n, hexTok) ==
    IF HasArg(s.index, Len(tuple))
    THEN LET r == visit(tuple, s.index)
         IN  IF ~r.ok
             THEN [s EXCEPT !.asserted = TRUE, !.index = @ + 1,
                            !.visited = @ \cup {s.index}, !.last = "assert"]
             ELSE LET p == TupleElementPrinter(s, r.val)
                      start == s.i + 1
                      faults == start > strlen(f) /\ Faulting(n)
                      j == IF start <= strlen(f) THEN SkipAlnum(f, start)
                           ELSE start + BytesFound(n)
                  IN  [p EXCEPT !.dflt = s.dflt,
                                !.index = @ + 1,
                                !.visited = @ \cup {s.index},
                                !.printLog = Append(@,
                                    [hexTok |-> hexTok, pending |-> s.dflt # {},
                                     arg |-> s.index,
                                     text |-> Insert(r.val, s.flags),
                                     natural |-> Insert(r.val, InitFlags)]),
                                !.maxRead = Max(@, IF faults THEN j - 1 ELSE j),
                                !.subs = @ \cup {s.i - 1},
                                !.i = IF faults THEN j ELSE j - 1,
                                !.last = IF faults THEN "fault"
                                         ELSE "substitute"]
    ELSE LET p == TupleElementPrinter(s, PercentChar)
         IN  [p EXCEPT !.printLog = Append(@,
                           [hexTok |-> hexTok, pending |-> s.dflt # {},
                            arg |-> -1,
                            text |-> Insert(PercentChar, s.flags),
                            natural |-> Insert(PercentChar, InitFlags)]),
                       !.subs = @ \cup {s.i - 1},
                       !.last = "exhausted"]

\* one iteration of the for loop, its ++i included (the ++i is not reached
\* when the iteration ends in the assert or in a fault)
LoopBody(f, tuple, s, n) ==
    LET c == At(f, s.i)
    IN  IF c # "%"
        THEN [s EXCEPT !.ss = Append(@, c), !.copied = Append(@, s.i),
                       !.maxRead = Max(@, s.i), !.i = @ + 1,
                       !.last = "literal"]
        ELSE LET d == At(f, s.i + 1)
                 s1 == [s EXCEPT !.maxRead = Max(@, s.i + 1)]
             IN  IF IsEscape(d)
                 THEN [s1 EXCEPT !.ss = Append(@, c), !.i = @ + 2,
                                 !.last = "escape"]
                 ELSE LET s2 == IF d = "x"
                                THEN setFlag([s1 EXCEPT !.ss = @ \o <<"0", "x">>],
                                             {"hex"})
                                ELSE s1
                          s3 == output(f, tuple, [s2 EXCEPT !.i = @ + 1], n,
                                       d = "x")
                      IN  IF s3.last \in {"assert", "fault"} THEN s3
                          ELSE [s3 EXCEPT !.i = @ + 1]

RECURSIVE Run(_, _, _, _)
Run(f, tuple, s, n) ==
    IF s.asserted \/ s.last = "fault" \/ s.i >= strlen(f) THEN s
    ELSE Run(f, tuple, LoopBody(f, tuple, s, n), n)

\* the text format(fmt, args...) returns
format(f, tuple, n) == Run(f, tuple, ScanInit, n).ss

\* ------------------------------------------------------- severity levels
Levels == {"LL_VERBOSE", "LL_DEBUG", "LL_INFO", "LL_WARNING", "LL_ERROR",
           "LL_EMERGENCY"}

\* enum class LoggerLevel : uint8_t
RankSigned(l) ==
    CASE l = "LL_VERBOSE" -> 0
      [] l = "LL_DEBUG" -> 16
      [] l = "LL_INFO" -> 32
      [] l = "LL_WARNING" -> 64
      [] l = "LL_ERROR" -> -128
      [] l = "LL_EMERGENCY" -> -1
Rank(l) ==
    CASE l = "LL_VERBOSE" -> 0
      [] l = "LL_DEBUG" -> 16
      [] l = "LL_INFO" -> 32
      [] l = "LL_WARNING" -> 64
      [] l = "LL_ERROR" -> 128
      [] l = "LL_EMERGENCY" -> 255

DefaultLevel == "LL_INFO"
OPERATOR_FAILURE == -1

\* the private log(level, message): the message is accepted by the logger
\* iff the level's rank is at least the threshold's rank
Accepts(msgLevel, threshold) == Rank(msgLevel) >= Rank(threshold)

\* log(level, message) on a logger with the given threshold and stream: the
\* stream after the call
log(stream, threshold, msgLevel, message) ==
    IF Accepts(msgLevel, threshold)
    THEN Append(stream, [level |-> msgLevel, message |-> message])
    ELSE stream

\* the entry points and the level each logs at
LevelKeyed == {"verbose", "debug", "info", "warning", "error", "emergency"}
Entries == LevelKeyed \cup {"log"}
EntryLevel(e) ==
    CASE e = "verbose" -> "LL_VERBOSE"
      [] e = "debug" -> "LL_DEBUG"
      [] e = "info" -> "LL_INFO"
      [] e = "warning" -> "LL_WARNING"
      [] e = "error" -> "LL_ERROR"
      [] e = "emergency" -> "LL_EMERGENCY"

\* whether the entry point calls std::exit after the write path
WillExit(entry, lvl) ==
    entry = "emergency" \/ (entry = "log" /\ lvl = "LL_EMERGENCY")

\* what the entry point returns: the six level-keyed calls are void, log
\* returns the message
Void == [has |-> FALSE, val |-> <<>>]
ReturnValue(entry, message) ==
    IF entry = "log" THEN [has |-> TRUE, val |-> message] ELSE Void

\* the messages logged in the logging specification
LogFmts == {<<"%", "d">>, <<"d", "%">>}
LogArgs == {<<IntArg>>}
NoCall == [entry |-> "none", level |-> "LL_VERBOSE", fmt |-> <<>>,
           args |-> <<>>, message |-> <<>>]

\* --------------------------------------------------------------- registry
\* LoggerName is const char *: a name is an address, and two addresses may
\* hold the same text
NamePtrs == {"p1", "p2", "p3"}
Text(p) == IF p = "p3" THEN "y" ELSE "x"
Texts == {Text(p) : p \in NamePtrs}
Instances == {"A", "B"}
NoInstance == "none"

\* ------------------------------------------------------------------ state
VARIABLES
    fmt, args, i, index, ss, flags, defaultFlags, maxRead, asserted, visited,
    printLog, copied, subs, last, fpc,
    level, levelSet, out, lpc, call, ret, handed, exited, exitStatus, ncalls,
    loggers, removeResult, lastOp, recent

scanVars == <<i, index, ss, flags, defaultFlags, maxRead, asserted, visited,
              printLog, copied, subs, last>>
formatVars == <<fmt, args, fpc, i, index, ss, flags, defaultFlags, maxRead,
                asserted, visited, printLog, copied, subs, last>>
logVars == <<level, levelSet, out, lpc, call, ret, handed, exited, exitStatus,
             ncalls>>
registryVars == <<loggers, removeResult, lastOp, recent>>
vars == <<formatVars, logVars, registryVars>>

Cur ==
    [i |-> i, index |-> index, ss |-> ss, flags |-> flags,
     dflt |-> defaultFlags, maxRead |-> maxRead, asserted |-> asserted,
     visited |-> visited, printLog |-> printLog, copied |-> copied,
     subs |-> subs, last |-> last]

SetScan(r) ==
    /\ i' = r.i
    /\ index' = r.index
    /\ ss' = r.ss
    /\ flags' = r.flags
    /\ defaultFlags' = r.dflt
    /\ maxRead' = r.maxRead
    /\ asserted' = r.asserted
    /\ visited' = r.visited
    /\ printLog' = r.printLog
    /\ copied' = r.copied
    /\ subs' = r.subs
    /\ last' = r.last

InitScan ==
    /\ i = 0
    /\ index = 0
    /\ ss = <<>>
    /\ flags = InitFlags
    /\ defaultFlags = {}
    /\ maxRead = 0
    /\ asserted = FALSE
    /\ visited = {}
    /\ printLog = <<>>
    /\ copied = <<>>
    /\ subs = {}
    /\ last = "none"

InitLog ==
    /\ level = DefaultLevel
    /\ levelSet = FALSE
    /\ out = <<>>
    /\ lpc = "idle"
    /\ call = NoCall
    /\ ret = Void
    /\ handed = <<>>
    /\ exited = FALSE
    /\ exitStatus = 0
    /\ ncalls = 0

InitRegistry ==
    /\ loggers = <<>>
    /\ removeResult = "none"
    /\ lastOp = [op |-> "none", name |-> "p1", existed |-> FALSE]
    /\ recent = [t \in Texts |-> NoInstance]

\* ------------------------------------------- specification of format alone
Init ==
    /\ fmt \in Fmts
    /\ args \in ArgLists
    /\ fpc = "scan"
    /\ InitScan
    /\ InitLog
    /\ InitRegistry

Scanning == fpc = "scan" /\ i < strlen(fmt)

Step(n) ==
    /\ SetScan(LoopBody(fmt, args, Cur, n))
    /\ fpc' = IF asserted' THEN "abort"
              ELSE IF last' = "fault" THEN "fault"
              ELSE "scan"
    /\ UNCHANGED <<fmt, args, logVars, registryVars>>

\* ss << fmt[i]
Literal ==
    /\ Scanning
    /\ At(fmt, i) # "%"
    /\ Step(0)

\* case '%': ss << fmt[i++]
Escape ==
    /\ Scanning
    /\ At(fmt, i) = "%"
    /\ IsEscape(At(fmt, i + 1))
    /\ Step(0)

\* default: output(++i) with an argument left; the skip loop reads beyond
\* the NUL when the '%' is the last character of fmt, and the read finds
\* some bytes there or faults
Substitute ==
    /\ Scanning
    /\ At(fmt, i) = "%"
    /\ ~IsEscape(At(fmt, i + 1))
    /\ HasArg(index, Len(args))
    /\ \E n \in Outcomes :
          /\ (i + 2 <= strlen(fmt)) => n = 0
          /\ Step(n)

\* default: output(++i) with every argument consumed
Exhausted ==
    /\ Scanning
    /\ At(fmt, i) = "%"
    /\ ~IsEscape(At(fmt, i + 1))
    /\ ~HasArg(index, Len(args))
    /\ Step(0)

\* return ss.str()
FormatReturn ==
    /\ fpc = "scan"
    /\ i >= strlen(fmt)
    /\ fpc' = "done"
    /\ UNCHANGED <<fmt, args, scanVars, logVars, registryVars>>

Next == Literal \/ Escape \/ Substitute \/ Exhausted \/ FormatReturn

Spec == Init /\ [][Next]_vars

\* ------------------------------------- specification of the logging calls
\* SsLogger::setLevel on the logger the write path uses
SetLevel ==
    /\ lpc = "idle"
    /\ \E l \in Levels : level' = l
    /\ levelSet' = TRUE
    /\ UNCHANGED <<out, lpc, call, ret, handed, exited, exitStatus, ncalls>>
    /\ UNCHANGED <<formatVars, registryVars>>

\* entry into verbose .. emergency or log(level, fmt, args...): the message
\* is rendered by format before anything else happens; a read of format
\* beyond the NUL that faults ends the process there
Call ==
    /\ lpc = "idle"
    /\ ncalls < MaxCalls
    /\ \E e \in Entries, f \in LogFmts, a \in LogArgs, l \in Levels,
          n \in Outcomes :
          /\ e \in LevelKeyed => l = EntryLevel(e)
          /\ call' = [entry |-> e, level |-> l, fmt |-> f, args |-> a,
                      message |-> format(f, a, n)]
          /\ lpc' = IF Run(f, a, ScanInit, n).last = "fault" THEN "fault"
                    ELSE "write"
    /\ ncalls' = ncalls + 1
    /\ ret' = Void
    /\ UNCHANGED <<level, levelSet, out, handed, exited, exitStatus>>
    /\ UNCHANGED <<formatVars, registryVars>>

\* the entry point hands the message to log(level, message), the write path,
\* and then either exits or returns
LogWrite ==
    /\ lpc = "write"
    /\ handed' = Append(handed, [level |-> call.level, message |-> call.message])
    /\ out' = log(out, level, call.level, call.message)
    /\ lpc' = IF WillExit(call.entry, call.level) THEN "exit" ELSE "return"
    /\ UNCHANGED <<level, levelSet, call, ret, exited, exitStatus, ncalls>>
    /\ UNCHANGED <<formatVars, registryVars>>

\* std::exit(OPERATOR_FAILURE)
Exit ==
    /\ lpc = "exit"
    /\ exited' = TRUE
    /\ exitStatus' = OPERATOR_FAILURE
    /\ lpc' = "exited"
    /\ UNCHANGED <<level, levelSet, out, call, ret, handed, ncalls>>
    /\ UNCHANGED <<formatVars, registryVars>>

\* the entry point returns to its caller
Return ==
    /\ lpc = "return"
    /\ ret' = ReturnValue(call.entry, call.message)
    /\ lpc' = "idle"
    /\ UNCHANGED <<level, levelSet, out, call, handed, exited, exitStatus, ncalls>>
    /\ UNCHANGED <<formatVars, registryVars>>

InitUnusedFormat ==
    /\ fmt = <<>>
    /\ args = <<>>
    /\ fpc = "unused"
    /\ InitScan

InitLogging == InitUnusedFormat /\ InitLog /\ InitRegistry

NextLog == SetLevel \/ Call \/ LogWrite \/ Exit \/ Return

SpecLog == InitLogging /\ [][NextLog]_vars

\* ------------------------------------------ specification of the registry
\* SsLogger::addLogger(name, logger): inserts or replaces the entry of name
AddLogger ==
    /\ \E name \in NamePtrs, inst \in Instances :
          /\ loggers' = [p \in (DOMAIN loggers) \cup {name} |->
                            IF p = name THEN inst ELSE loggers[p]]
          /\ lastOp' = [op |-> "add", name |-> name,
                        existed |-> \E p \in DOMAIN loggers : Text(p) = Text(name)]
          /\ recent' = [recent EXCEPT ![Text(name)] = inst]
    /\ removeResult' = "none"
    /\ UNCHANGED <<formatVars, logVars>>

\* SsLogger::removeLogger(name): removes the entry, returns whether it existed
RemoveLogger ==
    /\ \E name \in NamePtrs :
          /\ removeResult' = IF name \in DOMAIN loggers THEN "true" ELSE "false"
          /\ loggers' = [p \in (DOMAIN loggers) \ {name} |-> loggers[p]]
          /\ lastOp' = [op |-> "remove", name |-> name,
                        existed |-> \E p \in DOMAIN loggers : Text(p) = Text(name)]
          /\ recent' = [recent EXCEPT ![Text(name)] = NoInstance]
    /\ UNCHANGED <<formatVars, logVars>>

NextRegistry == AddLogger \/ RemoveLogger

SpecRegistry == InitLogging /\ [][NextRegistry]_vars

\* ================================================================= claims

\* C1: a substitution point reached after every argument has been consumed
\* appends a literal '%' to the output (after the "0x" prefix when the token
\* is %x), consumes nothing, calls visit not at all and raises no error.
C1_ExhaustedRendersPercent ==
    [][(Scanning /\ At(fmt, i) = "%" /\ At(fmt, i + 1) # "%"
            /\ index >= Len(args))
        => /\ ss' = ss \o (IF At(fmt, i + 1) = "x" THEN <<"0", "x">> ELSE <<>>)
                       \o <<"%">>
           /\ index' = index
           /\ visited' = visited
           /\ ~asserted'
           /\ fpc' = "scan"]_vars

C1_Witness ==
    /\ last = "exhausted"
    /\ Len(args) > 0
    /\ index = Len(args)
    /\ ss[Len(ss)] = "%"

\* C2: when format returns, every character of fmt that is not '%' and is
\* not in the alphanumeric run right after a substitution '%' has been
\* copied to the output, in its original order.
SpecifierRun ==
    UNION {{k \in (p + 1)..(strlen(fmt) - 1) :
               \A m \in (p + 1)..k : isalnum(At(fmt, m))} : p \in subs}

C2_OnlySpecifierRunOmitted ==
    fpc = "done" =>
        /\ \A k \in 0..(strlen(fmt) - 1) :
              (At(fmt, k) # "%" /\ k \notin SpecifierRun) => k \in Range(copied)
        /\ \A a, b \in 1..Len(copied) : a < b => copied[a] < copied[b]

\* C3: the token %% appends exactly one '%' to the output, consumes no
\* argument and hands nothing to the printer, whatever surrounds it and
\* however many arguments remain.
C3_EscapeRendersOnePercent ==
    [][(Scanning /\ At(fmt, i) = "%" /\ At(fmt, i + 1) = "%")
        => /\ ss' = Append(ss, "%")
           /\ index' = index
           /\ visited' = visited
           /\ printLog' = printLog
           /\ i' = i + 2]_vars

C3_Witness ==
    /\ last = "escape"
    /\ i > 2
    /\ i < strlen(fmt)
    /\ index > 0
    /\ index < Len(args)

\* C4: the flag a %x token sets is pending while exactly the value printed by
\* that token is rendered and has been cleared when any later value is
\* rendered; every value printed by another token is rendered in its natural
\* form.
C4_HexFlagOneShot ==
    /\ \A k \in 1..Len(printLog) :
          /\ printLog[k].arg >= 0 => (printLog[k].pending <=> printLog[k].hexTok)
          /\ ~printLog[k].hexTok => printLog[k].text = printLog[k].natural

\* C9: format calls visit only with an index in 0..N-1, so the assert(false)
\* of VisitImpl<0> is never reached, for every arity N, 0 included.
C9_VisitIndexInRange ==
    /\ ~asserted
    /\ fpc # "abort"
    /\ \A idx \in visited : 0 <= idx /\ idx < Len(args)

C9_Witness ==
    /\ fpc = "done"
    /\ Len(args) >= 2
    /\ visited = 0..(Len(args) - 1)

\* C10: the scan never reads fmt at an index greater than strlen(fmt), be it
\* a read that returns a byte or one that faults.
C10_NoReadPastNul == maxRead <= strlen(fmt) /\ fpc # "fault"

\* C5: an emergency-level call that has been entered is about to hand its
\* rendered message to the write path, or has handed it and is about to
\* exit, or has exited with OPERATOR_FAILURE: the exit never precedes the
\* write and is never skipped, whatever the threshold.
C5_EmergencyWritesThenExits ==
    (call.entry # "none" /\ call.level = "LL_EMERGENCY") =>
        \/ lpc = "write" /\ ~exited
        \/ /\ lpc \in {"exit", "exited"}
           /\ Len(handed) = ncalls
           /\ handed[Len(handed)] =
                  [level |-> "LL_EMERGENCY",
                   message |-> format(call.fmt, call.args, 0)]
           /\ exited <=> lpc = "exited"
           /\ exited => exitStatus = OPERATOR_FAILURE

\* C6: a level-keyed call (verbose, debug, info, warning, error, emergency)
\* that has returned has returned the rendered message to its caller, written
\* or not.
C6_LevelKeyedReturnMessage ==
    (lpc = "idle" /\ call.entry \in LevelKeyed)
        => (ret.has /\ ret.val = format(call.fmt, call.args, 0))

\* C7: the registry holds at most one instance per name, the one most
\* recently added under the name since its last removal, and removeLogger
\* returns true exactly when an entry for the name existed.
C7_OneInstancePerName ==
    /\ \A t \in Texts : Cardinality({p \in DOMAIN loggers : Text(p) = t}) <= 1
    /\ \A p \in DOMAIN loggers : loggers[p] = recent[Text(p)]
    /\ \A t \in Texts :
          recent[t] # NoInstance => \E p \in DOMAIN loggers : Text(p) = t
    /\ lastOp.op = "remove" => (removeResult = "true" <=> lastOp.existed)

\* C8: a message is written iff its level is at or after the threshold in
\* the order Verbose < Debug < Info < Warning < Error < Emergency, the ranks
\* increase strictly in that order, and the threshold is Info until setLevel.
Order == <<"LL_VERBOSE", "LL_DEBUG", "LL_INFO", "LL_WARNING", "LL_ERROR",
           "LL_EMERGENCY">>
Pos(l) == CHOOSE k \in 1..Len(Order) : Order[k] = l

C8_WrittenIffRankAtLeastThreshold ==
    /\ [](\A a, b \in Levels : Pos(a) < Pos(b) => Rank(a) < Rank(b))
    /\ [](~levelSet => level = "LL_INFO")
    /\ [][lpc = "write" =>
            IF Pos(call.level) >= Pos(level)
            THEN out' = Append(out, [level |-> call.level,
                                     message |-> call.message])
            ELSE out' = out]_vars

C8_Witness ==
    /\ lpc = "return"
    /\ level = "LL_WARNING"
    /\ call.level = "LL_INFO"
    /\ Len(out) = 1
    /\ out[1].level = "LL_ERROR"

====
